---- MODULE Spec2Model ----
(***************************************************************************)
(* Settlement subsystem of the labeland server (src/server/index.js):      *)
(* the wallet file, the credit ledger, the order file, the webhook event   *)
(* log and the request handlers that touch them.                           *)
(*                                                                         *)
(* Node runs one handler at a time and switches handlers only at an        *)
(* `await`.  Every action below is one such segment: the effect of the     *)
(* awaited file or network operation together with the synchronous code    *)
(* that follows it up to the next await.  pc[p] names the await a request  *)
(* is suspended at.                                                        *)
(*                                                                         *)
(* Money is kept in mills (1/1000 USD) so that Number(x.toFixed(2)), the   *)
(* rounding to whole cents the code applies, is a real operation.          *)
(***************************************************************************)
EXTENDS Integers, Sequences, FiniteSets, TLC

(* ------------------------------ bounds --------------------------------- *)
\* requests the model lets arrive in one behaviour
MaxRequests == 2
\* requests that can be in progress at the same time
MaxProcs == 2
\* largest value of the wall clock
MaxClock == 1
\* balance (in cents) principal u1 holds in the initial state
InitBalanceCents == 300
\* stated price (in cents) of the account product in the sample carts
AcctPriceCents == 200
\* amount (in cents) of a top-up request
TopupCents == 250
\* longest cart whose total is computed on its own
MaxCartLen == 3
MaxCrashes == 2

(* ------------------------- program constants --------------------------- *)
\* const LABEL_PRICE_USD = Number(process.env.LABEL_PRICE_USD || 1), in cents
LABEL_PRICE_CENTS == 100

MillsPerCent == 10
LABEL_PRICE_USD == LABEL_PRICE_CENTS * MillsPerCent

Procs == 1..MaxProcs
Users == {"u1", "u2"}
\* req.user of an unauthenticated request (optionalAuth returns null)
Nobody == "nobody"
\* req.user.email of the two principals' tokens: u1 has an email, u2 none
TokenEmail(u) == IF u = "u1" THEN "u1@x" ELSE ""
\* body.email of a request: not given, or given
BodyEmails == {"", "a@x"}
\* who sends a request with which body.email: a signed-in principal (who
\* relies on the token's email), or a visitor (with or without body.email)
SignedIn == {[who |-> u, email |-> ""] : u \in Users}
Visitors == {[who |-> Nobody, email |-> e] : e \in BodyEmails}

\* an absent / null / undefined JavaScript value
Null == "null"

VARIABLES
    env,        \* process.env: which secrets are configured
    wallets,    \* WALLETS_FILE: userId -> balance (mills); absent entries read as 0
    ledger,     \* CREDIT_LEDGER_FILE: sequence of appended lines
    orders,     \* ORDERS_JSON_FILE: array of order objects
    events,     \* ORDERS_FILE (coinbase-commerce-orders.txt): appended webhook events
    charges,    \* charges held by the payment gateway
    clock,      \* wall clock
    nextId,     \* number of crypto.randomUUID() values handed out
    started,    \* number of requests that have arrived
    pc,         \* per request slot: the await it is suspended at
    loc,        \* per request slot: the handler's local variables
    resp,       \* per request slot: the response sent
    labels,     \* labels table: id -> row (status, decline_reason, files)
    crashes     \* number of times the server process has stopped and restarted

vars == <<labels, crashes, env, wallets, ledger, orders, events, charges, clock, nextId, started, pc, loc, resp>>

(* ---------------------------- pure helpers ----------------------------- *)

\* Number(x.toFixed(2)): round a value in mills to whole cents (half up).
ToFixed2(x) ==
    LET q == x \div MillsPerCent
        r == x % MillsPerCent
    IN  IF 2 * r >= MillsPerCent THEN (q + 1) * MillsPerCent ELSE q * MillsPerCent

\* { ...a, ...b }
Spread(a, b) ==
    [k \in DOMAIN a \cup DOMAIN b |-> IF k \in DOMAIN b THEN b[k] ELSE a[k]]

LabelItem == [kind |-> "label"]
AcctItem == [kind |-> "account", priceUsd |-> AcctPriceCents * MillsPerCent]
\* account items as a client can post them: with a negative priceUsd, and
\* with a priceUsd that is no number (Number(it.priceUsd) is NaN)
NegativeItem == [kind |-> "account", priceUsd |-> 0 - AcctPriceCents * MillsPerCent]
UnpricedItem == [kind |-> "account"]
Carts == {<<>>, <<LabelItem>>, <<AcctItem>>, <<NegativeItem>>, <<UnpricedItem>>}

\* const priceUsd = Number(it.priceUsd); Number.isFinite(priceUsd) ? priceUsd : 0
PriceOf(it) == IF "priceUsd" \in DOMAIN it THEN it.priceUsd ELSE 0

RECURSIVE SumItems(_)
SumItems(items) ==
    IF items = <<>> THEN 0
    ELSE LET it == Head(items)
         IN  (IF it.kind = "account" THEN PriceOf(it) ELSE LABEL_PRICE_USD)
             + SumItems(Tail(items))

calcCartTotalUsd(items) == ToFixed2(SumItems(items))

hasAccountItems(items) == \E i \in 1..Len(items) : items[i].kind = "account"

\* m.k ?? d on a metadata object
Field(m, k, d) == IF k \in DOMAIN m THEN m[k] ELSE d

\* what a request slot holds before a request arrives in it
NoResp == [status |-> 0, error |-> ""]
Blank ==
    [kind |-> "none", userId |-> Null, email |-> "", items |-> <<>>, total |-> 0,
     orderId |-> 0, delta |-> 0, reason |-> "", meta |-> <<>>, nextBal |-> 0,
     w |-> <<>>, o |-> <<>>, order |-> <<>>, body |-> <<>>, sig |-> <<>>,
     id |-> "", files |-> <<>>]

(* ------------------------- payment gateway ----------------------------- *)

EventTypes == {"charge:confirmed", "charge:resolved", "charge:created"}

\* metadata the server sends with a top-up charge (index.js:1456-1461)
TopupMeta(userId, topupId, amountUsd) ==
    [purpose |-> "topup", userId |-> userId, topupId |-> topupId,
     amountUsd |-> ToFixed2(amountUsd)]

\* metadata that carries another order id than the one written
OrderMeta_OtherId(orderId, cartCount) == [orderId |-> orderId + 1, cartCount |-> cartCount]

\* metadata the server sends with a cart charge (index.js:1730-1734)
OrderMeta(orderId, cartCount) == [orderId |-> orderId, cartCount |-> cartCount]

\* the event the gateway posts about charge c: { event: { type, data: { id, metadata } } }
EventOf(type, c) ==
    [type |-> type, data |-> [id |-> c, metadata |-> charges[c].metadata]]

\* events the gateway can post: any event about a charge it holds, a
\* confirmation only for a charge whose hosted page the customer was given
GatewayEvents ==
    {EventOf(t, c) : t \in EventTypes, c \in DOMAIN charges} \
        {EventOf(t, c) : t \in {"charge:confirmed", "charge:resolved"},
                         c \in {d \in DOMAIN charges : ~charges[d].hosted}}

\* crypto.createHmac("sha256", SECRET).update(rawBody).digest("hex")
Hmac(rawBody) == [hmac |-> rawBody]
\* req.header("X-CC-Webhook-Signature") || "" of a request without the header
NoSignature == [none |-> TRUE]

(* ------------------------------ Init ----------------------------------- *)
\* The data files and the gateway as a short history leaves them:
\*   u1 topped up InitBalance (charge 1, confirmed, credited),
\*   u2 asked for a top-up (charge 2) and has not paid it yet,
\*   u1 checked out a cart of one label (order 3, charge 3), still pending.
InitBalance == InitBalanceCents * MillsPerCent
\* one label a customer has ordered, waiting for an admin
InitLabels ==
    [id \in {"L1"} |-> [status |-> "pending", declineReason |-> Null, files |-> <<>>]]
InitCharges ==
    <<[metadata |-> TopupMeta("u1", 1, InitBalance), hosted |-> TRUE],
      [metadata |-> TopupMeta("u2", 2, TopupCents * MillsPerCent), hosted |-> TRUE],
      [metadata |-> OrderMeta(3, 1), hosted |-> TRUE]>>
InitOrder ==
    [orderId |-> 3, createdAt |-> 0, updatedAt |-> 0, status |-> "pending",
     paymentMethod |-> "coinbase", totalUsd |-> calcCartTotalUsd(<<LabelItem>>),
     currency |-> "USD", items |-> <<LabelItem>>,
     user |-> [id |-> "u1", email |-> TokenEmail("u1")]]

Init ==
    /\ labels = InitLabels
    /\ crashes = 0
    /\ env \in [apiKey : BOOLEAN, webhookSecret : BOOLEAN]
    /\ wallets = [u \in Users |-> IF u = "u1" THEN InitBalance ELSE 0]
    /\ ledger = <<[userId |-> "u1", delta |-> InitBalance, balance |-> InitBalance,
                   reason |-> "topup",
                   meta |-> [chargeId |-> 1, type |-> "charge:confirmed"]]>>
    /\ orders = <<InitOrder>>
    /\ charges = InitCharges
    /\ events = <<[type |-> "charge:confirmed",
                   data |-> [id |-> 1, metadata |-> InitCharges[1].metadata]]>>
    /\ clock = 0
    /\ nextId = 3
    /\ started = 0
    /\ pc = [p \in Procs |-> "idle"]
    /\ loc = [p \in Procs |-> Blank]
    /\ resp = [p \in Procs |-> NoResp]

(* ------------------------- webhook dispatch ---------------------------- *)

\* a test that takes no event for a top-up
IsTopup_Never(meta) == FALSE

\* purpose === "topup" && userId && Number.isFinite(amountUsd)
IsTopup(meta) ==
    /\ Field(meta, "purpose", "") = "topup"
    /\ Field(meta, "userId", "") # ""
    /\ "amountUsd" \in DOMAIN meta

\* a test of the order id alone
IsOrderPayment_AnyPurpose(meta) == Field(meta, "orderId", 0) # 0

\* orderId && purpose !== "topup"
IsOrderPayment(meta) ==
    /\ Field(meta, "orderId", 0) # 0
    /\ Field(meta, "purpose", "") # "topup"

\* the order object the webhook upserts
PaidByCoinbaseOrder(orderId, chargeId, type, now) ==
    [orderId |-> orderId, status |-> "paid", paidAt |-> now, updatedAt |-> now,
     paymentMethod |-> "coinbase",
     coinbase |-> [chargeId |-> chargeId, eventType |-> type]]

(* --------------------------- handler frame ----------------------------- *)

\* a request can arrive in a slot that holds none, while requests are left
CanArrive(p) == pc[p] \in {"idle", "done"} /\ started < MaxRequests

\* res.status(s).json({ error }) and the handler returns
Respond(p, s, e) ==
    /\ pc' = [pc EXCEPT ![p] = "done"]
    /\ resp' = [resp EXCEPT ![p] = [status |-> s, error |-> e]]

\* the handler goes on to its next await
Goto(p, l) ==
    /\ pc' = [pc EXCEPT ![p] = l]
    /\ resp' = [resp EXCEPT ![p] = NoResp]

\* what stays of a handler's locals once it has answered: what the request was
Answered(l) ==
    [Blank EXCEPT !.kind = l.kind, !.orderId = l.orderId]

(* ------------------------- wallet / ledger ----------------------------- *)

\* getBalance(userId), given the wallets object read from the file
getBalance(w, userId) == ToFixed2(w[userId])

\* addCredits up to the end of readWallets: nextBal and the updated local object
nextBalance(w, userId, delta) == ToFixed2(w[userId] + delta)

\* the local wallets object with the new balance put in
withBalance(w, userId, nextBal) == [w EXCEPT ![userId] = nextBal]

\* the line addCredits appends to the credit ledger
LedgerLine(userId, delta, nextBal, reason, meta) ==
    [userId |-> userId, delta |-> delta, balance |-> nextBal, reason |-> reason,
     meta |-> meta]

\* addCredits: const wallets = await readWallets(); nextBal; wallets[userId] = ...
AddRead(p) ==
    /\ pc[p] = "add_read"
    /\ LET l == loc[p]
           nb == nextBalance(wallets, l.userId, l.delta)
       IN  loc' = [loc EXCEPT ![p] = [l EXCEPT !.nextBal = nb,
                                               !.w = withBalance(wallets, l.userId, nb)]]
    /\ Goto(p, "add_write")
    /\ UNCHANGED <<labels, crashes, env, wallets, ledger, orders, events, charges, clock, nextId, started>>

\* addCredits: await writeWallets(wallets)
AddWrite(p) ==
    /\ pc[p] = "add_write"
    /\ wallets' = loc[p].w
    /\ loc' = [loc EXCEPT ![p].w = <<>>]
    /\ Goto(p, "add_append")
    /\ UNCHANGED <<labels, crashes, env, ledger, orders, events, charges, clock, nextId, started>>

\* the order object POST /api/wallet/pay upserts
PaidByCreditsOrder(l, now) ==
    [orderId |-> l.orderId, createdAt |-> now, updatedAt |-> now, status |-> "paid",
     paidAt |-> now, paymentMethod |-> "credits", totalUsd |-> l.total,
     currency |-> "USD", items |-> l.items,
     user |-> [id |-> l.userId, email |-> l.email]]

\* addCredits: await fs.appendFile(CREDIT_LEDGER_FILE, ...); return nextBal;
\* then the caller goes on: /api/wallet/pay builds the order and calls
\* upsertOrder, the webhook has nothing left to do and answers 200
AddAppend(p) ==
    /\ pc[p] = "add_append"
    /\ LET l == loc[p]
       IN  /\ ledger' = Append(ledger,
                               LedgerLine(l.userId, l.delta, l.nextBal, l.reason, l.meta))
           /\ IF l.kind = "pay"
              THEN \E now \in clock..MaxClock :
                     /\ clock' = now
                     /\ loc' = [loc EXCEPT ![p].order = PaidByCreditsOrder(l, now)]
                     /\ Goto(p, "ups_read")
              ELSE IF IsOrderPayment(l.body.data.metadata)
              THEN \E now \in clock..MaxClock :
                     /\ clock' = now
                     /\ loc' = [loc EXCEPT ![p] =
                                 [l EXCEPT !.orderId = l.body.data.metadata.orderId,
                                           !.order = PaidByCoinbaseOrder(
                                                        l.body.data.metadata.orderId,
                                                        l.body.data.id, l.body.type, now)]]
                     /\ Goto(p, "ups_read")
              ELSE /\ clock' = clock
                   /\ loc' = [loc EXCEPT ![p] = Answered(l)]
                   /\ Respond(p, 200, "")
    /\ UNCHANGED <<labels, crashes, env, wallets, orders, events, charges, nextId, started>>

(* ------------------------------ orders --------------------------------- *)

\* orders.findIndex((o) => String(o.orderId) === String(order.orderId)); 0 for -1
findIndex(os, orderId) ==
    IF \E i \in 1..Len(os) : os[i].orderId = orderId
    THEN CHOOSE i \in 1..Len(os) :
            /\ os[i].orderId = orderId
            /\ \A j \in 1..(i - 1) : os[j].orderId # orderId
    ELSE 0

\* upsertOrder on the array read: merge into the stored object, or push
upserted(os, order) ==
    LET idx == findIndex(os, order.orderId)
    IN  IF idx > 0 THEN [os EXCEPT ![idx] = Spread(os[idx], order)]
        ELSE Append(os, order)

\* upsertOrder: const orders = await readOrders(); findIndex; merge or push
UpsRead(p) ==
    /\ pc[p] = "ups_read"
    /\ loc' = [loc EXCEPT ![p].o = upserted(orders, loc[p].order)]
    /\ Goto(p, "ups_write")
    /\ UNCHANGED <<labels, crashes, env, wallets, ledger, orders, events, charges, clock, nextId, started>>

\* what `await fs.writeFile(...)` can do: resolve, or reject (disk full, no
\* permission, ...) and leave the file as it was
WriteOutcomes == {"ok", "throws"}

\* upsertOrder: await writeOrders(orders); return order; then the caller goes
\* on: pay and the webhook answer 200, create-charge calls the gateway.  When
\* the write rejects, the handler's catch answers 500 with err.message
UpsWrite(p) ==
    /\ pc[p] = "ups_write"
    /\ \E outcome \in WriteOutcomes :
         IF outcome = "throws"
         THEN /\ orders' = orders
              /\ loc' = [loc EXCEPT ![p] = Answered(loc[p])]
              /\ Respond(p, 500, "write failed")
         ELSE /\ orders' = loc[p].o
              /\ IF loc[p].kind = "checkout"
                 THEN /\ loc' = [loc EXCEPT ![p].o = <<>>, ![p].order = <<>>]
                      /\ Goto(p, "cc_fetch")
                 ELSE /\ loc' = [loc EXCEPT ![p] = Answered(loc[p])]
                      /\ Respond(p, 200, "")
    /\ UNCHANGED <<labels, crashes, env, wallets, ledger, events, charges, clock, nextId, started>>

(* ----------------------- POST /api/wallet/pay -------------------------- *)

\* the check written so that it never fires
CartIsEmpty_Never(items) == Len(items) < 0

\* items.length === 0
CartIsEmpty(items) == Len(items) = 0

\* hasAccountItems && !email
EmailMissing(items, email) == hasAccountItems(items) /\ email = ""

\* the comparison written the wrong way round
InsufficientCredits_Reversed(balance, total) == total < balance

\* balance < total
InsufficientCredits(balance, total) == balance < total

\* a signed-in principal posts { items, email }: requireAuth and
\* express.json() run, the handler has not started
RecvPay(p) ==
    /\ CanArrive(p)
    /\ started' = started + 1
    /\ \E c \in SignedIn, items \in Carts :
         loc' = [loc EXCEPT ![p] = [Blank EXCEPT !.kind = "pay", !.userId = c.who,
                                                 !.items = items,
                                                 \* providedEmail || req.user.email || ""
                                                 !.email = IF c.email # "" THEN c.email
                                                           ELSE TokenEmail(c.who)]]
    /\ Goto(p, "pay_start")
    /\ UNCHANGED <<labels, crashes, env, wallets, ledger, orders, events, charges, clock, nextId>>

\* the handler up to `await getBalance(userId)`
StartPay(p) ==
    /\ pc[p] = "pay_start"
    /\ LET l == loc[p]
       IN  IF CartIsEmpty(l.items)
           THEN /\ loc' = [loc EXCEPT ![p] = Answered(l)]
                /\ Respond(p, 400, "Cart is empty.")
           ELSE IF EmailMissing(l.items, l.email)
           THEN /\ loc' = [loc EXCEPT ![p] = Answered(l)]
                /\ Respond(p, 400, "Email is required for account purchases.")
           ELSE /\ loc' = [loc EXCEPT ![p].total = calcCartTotalUsd(l.items)]
                /\ Goto(p, "pay_balance")
    /\ UNCHANGED <<labels, crashes, env, wallets, ledger, orders, events, charges, clock, nextId, started>>

\* const balance = await getBalance(userId); the check; orderId; the call of
\* addCredits(userId, -total, "purchase", { orderId, total, itemCount })
PayBalance(p) ==
    /\ pc[p] = "pay_balance"
    /\ LET l == loc[p]
           balance == getBalance(wallets, l.userId)
       IN  IF InsufficientCredits(balance, l.total)
           THEN /\ loc' = [loc EXCEPT ![p] = Answered(l)]
                /\ Respond(p, 400, "Insufficient credits.")
                /\ nextId' = nextId
           ELSE /\ nextId' = nextId + 1
                /\ loc' = [loc EXCEPT ![p] =
                            [l EXCEPT !.orderId = nextId + 1, !.delta = -l.total,
                                      !.reason = "purchase",
                                      !.meta = [orderId |-> nextId + 1,
                                                total |-> l.total,
                                                itemCount |-> Len(l.items)]]]
                /\ Goto(p, "add_read")
    /\ UNCHANGED <<labels, crashes, env, wallets, ledger, orders, events, charges, clock, started>>

(* --------------------------- gateway calls ----------------------------- *)

\* what `await fetch(".../charges")` and the reading of its answer can give:
\* a charge with its hosted_url, a non-2xx answer, a 2xx answer without
\* hosted_url, a network error
FetchOutcomes == {"ok", "not_ok", "no_url", "throws"}

\* the gateway's side of the call: it holds a new charge unless it refused
chargesAfter(outcome, metadata) ==
    IF outcome \in {"ok", "no_url"}
    THEN Append(charges, [metadata |-> metadata, hosted |-> outcome = "ok"])
    ELSE charges

\* the handler's answer after the call
FetchStatus(outcome) ==
    CASE outcome = "ok" -> 200
      [] outcome = "not_ok" -> 502
      [] outcome = "no_url" -> 502
      [] outcome = "throws" -> 500

FetchError(outcome) ==
    CASE outcome = "ok" -> ""
      [] outcome = "not_ok" -> "Failed to create Coinbase Commerce charge."
      [] outcome = "no_url" ->
            "Coinbase Commerce charge created, but no hosted_url was returned."
      [] outcome = "throws" -> "Unknown error"

(* ---------------- POST /api/wallet/topup/create-charge ----------------- *)

TopupAmounts == {0, TopupCents * MillsPerCent}

\* !Number.isFinite(amountUsd) || amountUsd <= 0
BadTopupAmount(amountUsd) == amountUsd <= 0

\* a signed-in principal posts { amountUsd }
RecvTopup(p) ==
    /\ CanArrive(p)
    /\ started' = started + 1
    /\ \E u \in Users, amountUsd \in TopupAmounts :
         loc' = [loc EXCEPT ![p] = [Blank EXCEPT !.kind = "topup", !.userId = u,
                                                 !.total = amountUsd]]
    /\ Goto(p, "tc_start")
    /\ UNCHANGED <<labels, crashes, env, wallets, ledger, orders, events, charges, clock, nextId>>

\* the handler up to `await fetch(...)`
StartTopup(p) ==
    /\ pc[p] = "tc_start"
    /\ LET l == loc[p]
       IN  IF ~env.apiKey
           THEN /\ loc' = [loc EXCEPT ![p] = Answered(l)]
                /\ Respond(p, 500, "Missing Coinbase Commerce config. Set COINBASE_COMMERCE_API_KEY.")
                /\ nextId' = nextId
           ELSE IF BadTopupAmount(l.total)
           THEN /\ loc' = [loc EXCEPT ![p] = Answered(l)]
                /\ Respond(p, 400, "amountUsd must be > 0.")
                /\ nextId' = nextId
           ELSE /\ nextId' = nextId + 1
                /\ loc' = [loc EXCEPT ![p].meta = TopupMeta(l.userId, nextId + 1, l.total)]
                /\ Goto(p, "tc_fetch")
    /\ UNCHANGED <<labels, crashes, env, wallets, ledger, orders, events, charges, clock, started>>

\* const r = await fetch(...) and the answer
TopupFetch(p) ==
    /\ pc[p] = "tc_fetch"
    /\ \E outcome \in FetchOutcomes :
         /\ charges' = chargesAfter(outcome, loc[p].meta)
         /\ Respond(p, FetchStatus(outcome), FetchError(outcome))
    /\ loc' = [loc EXCEPT ![p] = Answered(loc[p])]
    /\ UNCHANGED <<labels, crashes, env, wallets, ledger, orders, events, clock, nextId, started>>

(* ------------------ POST /api/coinbase/create-charge ------------------- *)

\* user: who ? { id, email } : email ? { id: null, email } : null
OrderUser(who, email) ==
    IF who # Nobody THEN [id |-> who, email |-> email]
    ELSE IF email # "" THEN [id |-> Null, email |-> email]
    ELSE [null |-> TRUE]

\* the order object written as already paid
PendingOrder_Paid(orderId, items, amount, who, email, now) ==
    [orderId |-> orderId, createdAt |-> now, updatedAt |-> now, status |-> "paid",
     paymentMethod |-> "coinbase", totalUsd |-> amount, currency |-> "USD",
     items |-> items, user |-> OrderUser(who, email)]

\* the order object POST /api/coinbase/create-charge upserts
PendingOrder(orderId, items, amount, who, email, now) ==
    [orderId |-> orderId, createdAt |-> now, updatedAt |-> now, status |-> "pending",
     paymentMethod |-> "coinbase", totalUsd |-> amount, currency |-> "USD",
     items |-> items, user |-> OrderUser(who, email)]

\* a principal or a visitor posts { items, email }
RecvCheckout(p) ==
    /\ CanArrive(p)
    /\ started' = started + 1
    /\ \E c \in SignedIn \cup Visitors, items \in Carts :
         loc' = [loc EXCEPT ![p] =
                  [Blank EXCEPT !.kind = "checkout", !.userId = c.who, !.items = items,
                                \* providedEmail || (who ? who.email || "" : "")
                                !.email = IF c.email # "" THEN c.email
                                          ELSE IF c.who # Nobody THEN TokenEmail(c.who)
                                          ELSE ""]]
    /\ Goto(p, "cc_start")
    /\ UNCHANGED <<labels, crashes, env, wallets, ledger, orders, events, charges, clock, nextId>>

\* the handler up to upsertOrder's `await readOrders()`
StartCheckout(p) ==
    /\ pc[p] = "cc_start"
    /\ LET l == loc[p]
       IN  IF ~env.apiKey
           THEN /\ loc' = [loc EXCEPT ![p] = Answered(l)]
                /\ Respond(p, 500, "Missing Coinbase Commerce config. Set COINBASE_COMMERCE_API_KEY.")
                /\ UNCHANGED <<nextId, clock>>
           ELSE IF CartIsEmpty(l.items)
           THEN /\ loc' = [loc EXCEPT ![p] = Answered(l)]
                /\ Respond(p, 400, "Cart is empty.")
                /\ UNCHANGED <<nextId, clock>>
           ELSE IF EmailMissing(l.items, l.email)
           THEN /\ loc' = [loc EXCEPT ![p] = Answered(l)]
                /\ Respond(p, 400, "Email is required for account purchases.")
                /\ UNCHANGED <<nextId, clock>>
           ELSE \E now \in clock..MaxClock :
                  /\ clock' = now
                  /\ nextId' = nextId + 1
                  /\ loc' = [loc EXCEPT ![p] =
                              [l EXCEPT !.orderId = nextId + 1,
                                        !.total = calcCartTotalUsd(l.items),
                                        !.meta = OrderMeta(nextId + 1, Len(l.items)),
                                        !.order = PendingOrder(nextId + 1, l.items,
                                                               calcCartTotalUsd(l.items),
                                                               l.userId, l.email, now)]]
                  /\ Goto(p, "ups_read")
    /\ UNCHANGED <<labels, crashes, env, wallets, ledger, orders, events, charges, started>>

\* const r = await fetch(...) and the answer
CheckoutFetch(p) ==
    /\ pc[p] = "cc_fetch"
    /\ \E outcome \in FetchOutcomes :
         /\ charges' = chargesAfter(outcome, loc[p].meta)
         /\ Respond(p, FetchStatus(outcome), FetchError(outcome))
    /\ loc' = [loc EXCEPT ![p] = Answered(loc[p])]
    /\ UNCHANGED <<labels, crashes, env, wallets, ledger, orders, events, clock, nextId, started>>

(* --------------------- POST /api/coinbase/webhook ---------------------- *)

\* a check that only looks whether a signature header came with the request
SignatureMatches_AnyHeader(sigHeader, rawBody) == sigHeader # NoSignature

\* a.length === b.length && crypto.timingSafeEqual(a, b) === true
SignatureMatches(sigHeader, rawBody) == sigHeader = Hmac(rawBody)

\* the classification that lets every event type through
shouldPersist_Any(type) == type \in EventTypes

\* type === "charge:confirmed" || type === "charge:resolved"
shouldPersist(type) == type \in {"charge:confirmed", "charge:resolved"}

\* a body of the gateway with one field changed in transit: the event type
\* made a confirmation, or the amount / the order id altered
TamperType(e) == [e EXCEPT !.type = "charge:confirmed"]
TamperMeta(e) ==
    LET m == e.data.metadata
    IN  [e EXCEPT !.data.metadata =
            IF "amountUsd" \in DOMAIN m
            THEN [m EXCEPT !.amountUsd = m.amountUsd + InitBalance]
            ELSE [m EXCEPT !.orderId = m.orderId + 1]]

\* a raw body that is not JSON
Unparseable == [raw |-> "not json"]

\* JSON.parse(rawBody.toString("utf8")) does not throw
Parses(rawBody) == "raw" \notin DOMAIN rawBody

\* the (rawBody, X-CC-Webhook-Signature) pairs that can be posted: a delivery
\* by the gateway, the same without the header, a tampered body under the
\* signature the gateway made for the original, and a body that is not JSON
\* under its own valid signature
WebhookRequests ==
    {[body |-> e, sig |-> Hmac(e)] : e \in GatewayEvents}
    \cup {[body |-> Unparseable, sig |-> Hmac(Unparseable)]}
    \cup {[body |-> e, sig |-> NoSignature] : e \in GatewayEvents}
    \cup {[body |-> TamperType(e), sig |-> Hmac(e)] : e \in GatewayEvents}
    \cup {[body |-> TamperMeta(e), sig |-> Hmac(e)] : e \in GatewayEvents}

\* somebody posts a body with a signature header; express.raw() reads it
RecvWebhook(p) ==
    /\ CanArrive(p)
    /\ started' = started + 1
    /\ \E r \in WebhookRequests :
         loc' = [loc EXCEPT ![p] = [Blank EXCEPT !.kind = "webhook", !.body = r.body,
                                                 !.sig = r.sig]]
    /\ Goto(p, "wh_start")
    /\ UNCHANGED <<labels, crashes, env, wallets, ledger, orders, events, charges, clock, nextId>>

\* the handler up to the first await (fs.mkdir / fs.appendFile of the event log)
StartWebhook(p) ==
    /\ pc[p] = "wh_start"
    /\ LET l == loc[p]
       IN  IF ~env.webhookSecret
           THEN /\ loc' = [loc EXCEPT ![p] = Answered(l)]
                /\ Respond(p, 500, "Missing COINBASE_COMMERCE_WEBHOOK_SECRET")
           ELSE IF ~SignatureMatches(l.sig, l.body)
           THEN /\ loc' = [loc EXCEPT ![p] = Answered(l)]
                /\ Respond(p, 400, "Invalid signature")
           ELSE IF ~Parses(l.body)
           THEN /\ loc' = [loc EXCEPT ![p] = Answered(l)]
                /\ Respond(p, 500, "Unexpected token")
           ELSE IF shouldPersist(l.body.type)
           THEN /\ loc' = [loc EXCEPT ![p].sig = <<>>]
                /\ Goto(p, "wh_append")
           ELSE /\ loc' = [loc EXCEPT ![p] = Answered(l)]
                /\ Respond(p, 200, "")
    /\ UNCHANGED <<labels, crashes, env, wallets, ledger, orders, events, charges, clock, nextId, started>>

\* an append that writes nothing
withEvent_Dropped(log, eventObj) == log

\* fs.appendFile(ORDERS_FILE, JSON.stringify({ receivedAt, ...eventObj }) + "\n")
withEvent(log, eventObj) == Append(log, eventObj)

\* await fs.appendFile(ORDERS_FILE, line); then the dispatch on the metadata
WebhookAppend(p) ==
    /\ pc[p] = "wh_append"
    /\ events' = withEvent(events, loc[p].body)
    /\ LET l == loc[p]
           type == l.body.type
           data == l.body.data
           meta == data.metadata
       IN  IF IsTopup(meta)
           THEN /\ loc' = [loc EXCEPT ![p] =
                            [l EXCEPT !.userId = meta.userId,
                                      !.delta = ToFixed2(meta.amountUsd),
                                      !.reason = "topup",
                                      !.meta = [chargeId |-> data.id, type |-> type]]]
                /\ Goto(p, "add_read")
                /\ clock' = clock
           ELSE IF IsOrderPayment(meta)
           THEN \E now \in clock..MaxClock :
                  /\ clock' = now
                  /\ loc' = [loc EXCEPT ![p] =
                              [l EXCEPT !.orderId = meta.orderId,
                                        !.order = PaidByCoinbaseOrder(meta.orderId,
                                                                      data.id, type, now)]]
                  /\ Goto(p, "ups_read")
           ELSE /\ loc' = [loc EXCEPT ![p] = Answered(l)]
                /\ Respond(p, 200, "")
                /\ clock' = clock
    /\ UNCHANGED <<labels, crashes, env, wallets, ledger, orders, charges, nextId, started>>

(* ---------------- DELETE /api/admin/orders/:orderId -------------------- *)

\* orders.filter((o) => String(o.orderId) !== orderId)
withoutOrder(os, orderId) == SelectSeq(os, LAMBDA o : o.orderId # orderId)

\* an admin asks to delete an order id; requireAuth and requireAdmin run
RecvDelete(p) ==
    /\ CanArrive(p)
    /\ started' = started + 1
    /\ \E orderId \in 1..nextId :
         loc' = [loc EXCEPT ![p] = [Blank EXCEPT !.kind = "delete", !.orderId = orderId]]
    /\ Goto(p, "del_read")
    /\ UNCHANGED <<labels, crashes, env, wallets, ledger, orders, events, charges, clock, nextId>>

\* const orders = await readOrders(); const next = orders.filter(...)
DeleteRead(p) ==
    /\ pc[p] = "del_read"
    /\ loc' = [loc EXCEPT ![p].o = withoutOrder(orders, loc[p].orderId)]
    /\ Goto(p, "del_write")
    /\ UNCHANGED <<labels, crashes, env, wallets, ledger, orders, events, charges, clock, nextId, started>>

\* await writeOrders(next); res.json({ ok: true })
DeleteWrite(p) ==
    /\ pc[p] = "del_write"
    /\ orders' = loc[p].o
    /\ loc' = [loc EXCEPT ![p] = Answered(loc[p])]
    /\ Respond(p, 200, "")
    /\ UNCHANGED <<labels, crashes, env, wallets, ledger, events, charges, clock, nextId, started>>

(* --------------------------- specification ----------------------------- *)

Next ==
    \E p \in Procs :
        \/ RecvPay(p)
        \/ StartPay(p)
        \/ PayBalance(p)
        \/ AddRead(p)
        \/ AddWrite(p)
        \/ AddAppend(p)
        \/ UpsRead(p)
        \/ UpsWrite(p)
        \/ RecvTopup(p)
        \/ StartTopup(p)
        \/ TopupFetch(p)
        \/ RecvCheckout(p)
        \/ StartCheckout(p)
        \/ CheckoutFetch(p)
        \/ RecvWebhook(p)
        \/ StartWebhook(p)
        \/ WebhookAppend(p)
        \/ RecvDelete(p)
        \/ DeleteRead(p)
        \/ DeleteWrite(p)

Spec == Init /\ [][Next]_vars

(* ------------------- admin label routes (labels table) ------------------ *)

\* req.params.id: the label that exists and an id without a row
LabelIds == {"L1", "L9"}
\* req.files mapped to { filename, originalName }: no upload, one file
Uploads == {<<>>, <<[filename |-> "f1", originalName |-> "label.pdf"]>>}
\* String(body.reason ?? "").trim()
Reasons == {"", "wrong address"}

\* the result of getLabelById for an id without a row
NoLabel == [none |-> TRUE]

\* SELECT ... FROM labels WHERE id = $1
getLabelById(id) == IF id \in DOMAIN labels THEN labels[id] ELSE NoLabel

\* UPDATE labels SET <the fields given> WHERE id = $n
updateLabel(id, updates) ==
    IF id \in DOMAIN labels
    THEN [labels EXCEPT ![id] = Spread(@, updates)]
    ELSE labels

\* an admin posts files for a label; requireAuth, requireAdmin, multer run
RecvLabelDone(p) ==
    /\ CanArrive(p)
    /\ started' = started + 1
    /\ \E id \in LabelIds, files \in Uploads :
         loc' = [loc EXCEPT ![p] = [Blank EXCEPT !.kind = "label_done", !.id = id,
                                                 !.files = files]]
    /\ Goto(p, "done_read")
    /\ UNCHANGED <<labels, crashes, env, wallets, ledger, orders, events, charges, clock, nextId>>

\* const label = await getLabelById(id) and the checks of the done route
DoneRead(p) ==
    /\ pc[p] = "done_read"
    /\ LET l == loc[p]
           label == getLabelById(l.id)
       IN  IF label = NoLabel
           THEN /\ loc' = [loc EXCEPT ![p] = Answered(l)]
                /\ Respond(p, 404, "Not found.")
           ELSE IF label.status # "pending"
           THEN /\ loc' = [loc EXCEPT ![p] = Answered(l)]
                /\ Respond(p, 400, "Label is not pending.")
           ELSE IF Len(l.files) = 0
           THEN /\ loc' = [loc EXCEPT ![p] = Answered(l)]
                /\ Respond(p, 400, "Upload at least one file.")
           ELSE /\ loc' = loc
                /\ Goto(p, "done_update")
    /\ UNCHANGED <<labels, crashes, env, wallets, ledger, orders, events, charges, clock, nextId, started>>

\* await updateLabel(id, { status: "done", files: uploaded })
DoneUpdate(p) ==
    /\ pc[p] = "done_update"
    /\ \E outcome \in WriteOutcomes :
         IF outcome = "ok"
         THEN /\ labels' = updateLabel(loc[p].id, [status |-> "done", files |-> loc[p].files])
              /\ loc' = loc
              /\ Goto(p, "label_reread")
         ELSE /\ labels' = labels
              /\ loc' = [loc EXCEPT ![p] = Answered(loc[p])]
              /\ Respond(p, 500, "query failed")
    /\ UNCHANGED <<crashes, env, wallets, ledger, orders, events, charges, clock, nextId, started>>

\* an admin declines a label with a reason; an empty reason is answered at once
RecvLabelDecline(p) ==
    /\ CanArrive(p)
    /\ started' = started + 1
    /\ \E id \in LabelIds, reason \in Reasons :
         LET l == [Blank EXCEPT !.kind = "label_decline", !.id = id, !.reason = reason]
         IN  IF reason = ""
             THEN /\ loc' = [loc EXCEPT ![p] = Answered(l)]
                  /\ Respond(p, 400, "Reason is required.")
             ELSE /\ loc' = [loc EXCEPT ![p] = l]
                  /\ Goto(p, "decline_read")
    /\ UNCHANGED <<labels, crashes, env, wallets, ledger, orders, events, charges, clock, nextId>>

\* const label = await getLabelById(id) and the checks of the decline route
DeclineRead(p) ==
    /\ pc[p] = "decline_read"
    /\ LET l == loc[p]
           label == getLabelById(l.id)
       IN  IF label = NoLabel
           THEN /\ loc' = [loc EXCEPT ![p] = Answered(l)]
                /\ Respond(p, 404, "Not found.")
           ELSE IF label.status # "pending"
           THEN /\ loc' = [loc EXCEPT ![p] = Answered(l)]
                /\ Respond(p, 400, "Label is not pending.")
           ELSE /\ loc' = loc
                /\ Goto(p, "decline_update")
    /\ UNCHANGED <<labels, crashes, env, wallets, ledger, orders, events, charges, clock, nextId, started>>

\* await updateLabel(id, { status: "cancelled", declineReason: reason })
DeclineUpdate(p) ==
    /\ pc[p] = "decline_update"
    /\ \E outcome \in WriteOutcomes :
         IF outcome = "ok"
         THEN /\ labels' = updateLabel(loc[p].id, [status |-> "cancelled",
                                                   declineReason |-> loc[p].reason])
              /\ loc' = loc
              /\ Goto(p, "label_reread")
         ELSE /\ labels' = labels
              /\ loc' = [loc EXCEPT ![p] = Answered(loc[p])]
              /\ Respond(p, 500, "query failed")
    /\ UNCHANGED <<crashes, env, wallets, ledger, orders, events, charges, clock, nextId, started>>

\* const updated = await getLabelById(id); res.json({ ok: true, label: updated })
LabelReread(p) ==
    /\ pc[p] = "label_reread"
    /\ loc' = [loc EXCEPT ![p] = Answered(loc[p])]
    /\ Respond(p, 200, "")
    /\ UNCHANGED <<labels, crashes, env, wallets, ledger, orders, events, charges, clock, nextId, started>>

LabelNext ==
    \E p \in Procs :
        \/ RecvLabelDone(p)
        \/ DoneRead(p)
        \/ DoneUpdate(p)
        \/ RecvLabelDecline(p)
        \/ DeclineRead(p)
        \/ DeclineUpdate(p)
        \/ LabelReread(p)

LabelSpec == Init /\ [][LabelNext]_vars

(* ------------- redelivery by the gateway, crashes of the server --------- *)
\* The gateway posts the confirmation of an open charge and posts it again
\* until it is answered 200. The server process can die while handlers are
\* suspended at an await: the files stay as written so far, the handlers are
\* gone and their requests get no answer. Store writes succeed here: for the
\* files and for the gateway a failed write is a crash at that write.

\* the open charge whose confirmation is delivered through slot p
\* (charge 2: the top-up of u2, charge 3: the cart order 3)
ChargeFor(p) == 2 + (p % 2)
DeliveryOf(p) == EventOf("charge:confirmed", ChargeFor(p))

\* the gateway has its 200 for the delivery of slot p
Acknowledged(p) == resp[p].status = 200

\* a handler of slot p is suspended at an await
InFlight(p) == pc[p] \notin {"idle", "done"}

\* the gateway posts the event with its signature, again if need be
Deliver(p) ==
    /\ ~InFlight(p)
    /\ ~Acknowledged(p)
    /\ loc' = [loc EXCEPT ![p] = [Blank EXCEPT !.kind = "webhook",
                                               !.body = DeliveryOf(p),
                                               !.sig = Hmac(DeliveryOf(p))]]
    /\ Goto(p, "wh_start")
    /\ UNCHANGED <<labels, crashes, env, wallets, ledger, orders, events, charges, clock, nextId, started>>

\* the process dies and is started again: no handler survives, no request
\* in flight is answered, the files are as they were
Crash ==
    /\ crashes < MaxCrashes
    /\ \E p \in Procs : InFlight(p)
    /\ crashes' = crashes + 1
    /\ pc' = [p \in Procs |-> IF InFlight(p) THEN "idle" ELSE pc[p]]
    /\ loc' = [p \in Procs |-> IF InFlight(p) THEN Blank ELSE loc[p]]
    /\ UNCHANGED <<labels, env, wallets, ledger, orders, events, charges, clock, nextId, started, resp>>

RedeliveryInit ==
    /\ labels = InitLabels
    /\ crashes = 0
    /\ env \in [apiKey : BOOLEAN, webhookSecret : {TRUE}]
    /\ wallets = [u \in Users |-> IF u = "u1" THEN InitBalance ELSE 0]
    /\ ledger = <<[userId |-> "u1", delta |-> InitBalance, balance |-> InitBalance,
                   reason |-> "topup",
                   meta |-> [chargeId |-> 1, type |-> "charge:confirmed"]]>>
    /\ orders = <<InitOrder>>
    /\ charges = InitCharges
    /\ events = <<[type |-> "charge:confirmed",
                   data |-> [id |-> 1, metadata |-> InitCharges[1].metadata]]>>
    /\ clock = 0
    /\ nextId = 3
    /\ started = 0
    /\ pc = [p \in Procs |-> "idle"]
    /\ loc = [p \in Procs |-> Blank]
    /\ resp = [p \in Procs |-> NoResp]

\* await writeOrders(orders) of the webhook's upsertOrder, and the 200
UpsWriteDone(p) == UpsWrite(p) /\ orders' = loc[p].o

\* one step of the handler that holds slot p
HandlerStep(p) ==
    \/ StartWebhook(p)
    \/ WebhookAppend(p)
    \/ AddRead(p)
    \/ AddWrite(p)
    \/ AddAppend(p)
    \/ UpsRead(p)
    \/ UpsWriteDone(p)

RedeliveryNext ==
    \/ \E p \in Procs : Deliver(p)
    \/ \E p \in Procs : HandlerStep(p)
    \/ Crash

\* Node runs the continuation of every await whose I/O has completed, and the
\* gateway keeps retrying a delivery that was not answered 200; nothing
\* obliges the server to crash.
RedeliverySpec ==
    /\ RedeliveryInit
    /\ [][RedeliveryNext]_vars
    /\ \A p \in Procs : WF_vars(Deliver(p)) /\ WF_vars(HandlerStep(p))

(* ---------- charges of the gateway account made outside the server ------ *)
\* The webhook secret belongs to the gateway account, so the handler also
\* verifies events of charges that were not created by this server and whose
\* metadata mixes the fields of both purposes:
\*   charge 4: a top-up for u2 that also names order 3,
\*   charge 5: another purpose naming order 3, with a userId and an amount,
\*   charge 6: a top-up without userId that names order 3.
ForeignCharges ==
    <<[metadata |-> [purpose |-> "topup", userId |-> "u2",
                     amountUsd |-> TopupCents * MillsPerCent, orderId |-> 3],
       hosted |-> TRUE],
      [metadata |-> [purpose |-> "label", orderId |-> 3, userId |-> "u2",
                     amountUsd |-> TopupCents * MillsPerCent],
       hosted |-> TRUE],
      [metadata |-> [purpose |-> "topup", orderId |-> 3, amountUsd |-> 0],
       hosted |-> TRUE]>>

ForeignInit ==
    /\ labels = InitLabels
    /\ crashes = 0
    /\ env \in [apiKey : BOOLEAN, webhookSecret : {TRUE}]
    /\ wallets = [u \in Users |-> IF u = "u1" THEN InitBalance ELSE 0]
    /\ ledger = <<[userId |-> "u1", delta |-> InitBalance, balance |-> InitBalance,
                   reason |-> "topup",
                   meta |-> [chargeId |-> 1, type |-> "charge:confirmed"]]>>
    /\ orders = <<InitOrder>>
    /\ charges = InitCharges \o ForeignCharges
    /\ events = <<[type |-> "charge:confirmed",
                   data |-> [id |-> 1, metadata |-> InitCharges[1].metadata]]>>
    /\ clock = 0
    /\ nextId = 3
    /\ started = 0
    /\ pc = [p \in Procs |-> "idle"]
    /\ loc = [p \in Procs |-> Blank]
    /\ resp = [p \in Procs |-> NoResp]

ForeignSpec == ForeignInit /\ [][Next]_vars

(* ------------------- calcCartTotalUsd on Numbers ----------------------- *)
(* calcCartTotalUsd adds JavaScript Numbers, IEEE 754 doubles: every          *)
(* `sum + priceUsd` is rounded to 53 significant bits, ties to even.  A       *)
(* double x with 0 <= x < 16 that is a multiple of 2^-53 (every double from   *)
(* 0.5 up is) is kept here as the integer x * 2^53, written in three limbs    *)
(* <<l0, l1, l2>> of 20 bits: l0 + l1 * 2^20 + l2 * 2^40.                     *)

\* 2^20, the base of a limb
LimbBase == 1048576

\* the value 1.0 in the high limb: 2^53 / 2^40
HighOne == 8192

\* carry the overflow of the two low limbs upward
Normalize(l) ==
    LET l1 == l[2] + (l[1] \div LimbBase)
    IN  <<l[1] % LimbBase, l1 % LimbBase, l[3] + (l1 \div LimbBase)>>

\* the spacing of the doubles around l, in units of 2^-53
UlpUnits(l) ==
    IF l[3] < HighOne THEN 1
    ELSE IF l[3] < 2 * HighOne THEN 2
    ELSE IF l[3] < 4 * HighOne THEN 4
    ELSE IF l[3] < 8 * HighOne THEN 8
    ELSE 16

\* the double nearest to l + num / den units (0 <= num < den), ties to even
RoundToDouble(l, num, den) ==
    LET u == UlpUnits(l)
        r == l[1] % u
        down == <<l[1] - r, l[2], l[3]>>
        up == Normalize(<<l[1] - r + u, l[2], l[3]>>)
    IN  IF 2 * (den * r + num) < den * u THEN down
        ELSE IF 2 * (den * r + num) > den * u THEN up
        ELSE IF (l[1] \div u) % 2 = 0 THEN down
        ELSE up

\* Number(it.priceUsd) of a price written in decimal with three places
\* (mills / 1000): the nearest double, by long division of mills * 2^53
DoubleOf(mills) ==
    LET q2 == (mills * HighOne) \div 1000
        r2 == (mills * HighOne) % 1000
        q1 == (r2 * LimbBase) \div 1000
        r1 == (r2 * LimbBase) % 1000
        q0 == (r1 * LimbBase) \div 1000
        r0 == (r1 * LimbBase) % 1000
    IN  RoundToDouble(Normalize(<<q0, q1, q2>>), r0, 1000)

\* a + b on Numbers
DoubleAdd(a, b) ==
    RoundToDouble(Normalize(<<a[1] + b[1], a[2] + b[2], a[3] + b[3]>>), 0, 1)

\* x.toFixed(2) as a number of cents: the integer n with n / 100 nearest to
\* the exact value of x, the larger n of two: floor((200 * X + 2^53) / 2^54)
ToFixed2Cents(l) ==
    LET c0 == (l[1] * 200) \div LimbBase
        c1 == (l[2] * 200 + c0) \div LimbBase
    IN  (l[3] * 200 + c1 + HighOne) \div (2 * HighOne)

\* items.reduce((sum, it) => sum + price(it), sum), left to right
RECURSIVE ReduceSum(_, _)
ReduceSum(sum, items) ==
    IF items = <<>> THEN sum
    ELSE LET it == Head(items)
             priceUsd == IF it.kind = "account" THEN DoubleOf(it.priceUsd)
                         ELSE DoubleOf(LABEL_PRICE_USD)
         IN  ReduceSum(DoubleAdd(sum, priceUsd), Tail(items))

\* calcCartTotalUsd(items) computed on Numbers; the result in cents
calcCartTotalUsdNumber(items) == ToFixed2Cents(ReduceSum(<<0, 0, 0>>, items))

\* the stated prices (in mills) of the account products in the carts priced
PricesMills == {530, 2000, 2100, 2125}
PricedItems ==
    {LabelItem} \cup {[kind |-> "account", priceUsd |-> m] : m \in PricesMills}
PricedCarts == UNION {[1..n -> PricedItems] : n \in 0..MaxCartLen}

\* the items of a cart in another order
Reordered(items) ==
    {[i \in 1..Len(items) |-> items[f[i]]] : f \in Permutations(1..Len(items))}

\* a cart is given; nothing else happens in this specification
PricingInit ==
    /\ labels = InitLabels
    /\ crashes = 0
    /\ env = [apiKey |-> TRUE, webhookSecret |-> TRUE]
    /\ wallets = [u \in Users |-> 0]
    /\ ledger = <<>>
    /\ orders = <<>>
    /\ events = <<>>
    /\ charges = <<>>
    /\ clock = 0
    /\ nextId = 0
    /\ started = 0
    /\ pc = [p \in Procs |-> "cart"]
    /\ \E items \in PricedCarts :
         loc = [p \in Procs |-> [Blank EXCEPT !.kind = "price", !.items = items]]
    /\ resp = [p \in Procs |-> NoResp]

\* const total = calcCartTotalUsd(items)
PriceCart(p) ==
    /\ pc[p] = "cart"
    /\ loc' = [loc EXCEPT ![p].total = calcCartTotalUsdNumber(loc[p].items)]
    /\ pc' = [pc EXCEPT ![p] = "priced"]
    /\ UNCHANGED <<labels, crashes, env, wallets, ledger, orders, events, charges, clock, nextId,
                   started, resp>>

\* calcCartTotalUsd(items) again, the same items having come in another order
PriceReordered(p) ==
    /\ pc[p] = "priced"
    /\ \E items \in Reordered(loc[p].items) :
         loc' = [loc EXCEPT ![p].items = items,
                            ![p].total = calcCartTotalUsdNumber(items)]
    /\ pc' = [pc EXCEPT ![p] = "repriced"]
    /\ UNCHANGED <<labels, crashes, env, wallets, ledger, orders, events, charges, clock, nextId,
                   started, resp>>

PricingNext == \E p \in Procs : PriceCart(p) \/ PriceReordered(p)

PricingSpec == PricingInit /\ [][PricingNext]_vars

(* =============================== claims ================================ *)

\* the stores the settlement code writes
stores == <<wallets, ledger, orders, events>>

\* the ledger lines of one top-up event: charge c, event type t
TopupLines(c, t) ==
    {i \in 1..Len(ledger) :
        /\ ledger[i].reason = "topup"
        /\ ledger[i].meta.chargeId = c
        /\ ledger[i].meta.type = t}

RECURSIVE SumDelta(_, _)
SumDelta(lines, S) ==
    IF S = {} THEN 0
    ELSE LET i == CHOOSE j \in S : TRUE
         IN  lines[i].delta + SumDelta(lines, S \ {i})

\* C1: however often the same verified confirmation of a top-up charge is
\* delivered, the ledger holds one top-up line for it and the principal is
\* credited its amount once.
C1_TopupCreditedOnce ==
    \A c \in DOMAIN charges, t \in EventTypes :
        /\ Cardinality(TopupLines(c, t)) <= 1
        /\ SumDelta(ledger, TopupLines(c, t)) <= Field(charges[c].metadata, "amountUsd", 0)

\* C2: no principal's balance is ever below zero.
C2_NoNegativeBalance == \A u \in Users : wallets[u] >= 0

\* an addCredits call is between its readWallets and its return
AdjustInProgress == \E p \in Procs : pc[p] \in {"add_read", "add_write", "add_append"}

LinesOf(u) == {i \in 1..Len(ledger) : ledger[i].userId = u}

\* C3: once the adjustments issued on one principal have all completed (and
\* no other principal was adjusted), the balance is the sum of their deltas:
\* none is lost.
C3_NoLostAdjustment ==
    \A u \in Users :
        (~AdjustInProgress /\ LinesOf(u) = 1..Len(ledger))
            => wallets[u] = SumDelta(ledger, LinesOf(u))

\* addCredits of request p returns in this step
AdjustReturns(p) == pc[p] = "add_append" /\ pc'[p] # "add_append"

\* C4: when an adjust call returns, the log has gained one line for it and
\* that line's balance is the principal's stored balance.
C4_EntryMatchesBalance ==
    [][\A p \in Procs :
          AdjustReturns(p) =>
              /\ Len(ledger') = Len(ledger) + 1
              /\ ledger'[Len(ledger')].userId = loc[p].userId
              /\ ledger'[Len(ledger')].delta = loc[p].delta
              /\ ledger'[Len(ledger')].balance = wallets'[loc[p].userId]]_vars

\* request p takes the step that leaves label l
Leaves(p, l) == pc[p] = l /\ pc'[p] # l

\* request p was answered with status s
AnsweredWith(p, kind, s) ==
    pc[p] = "done" /\ loc[p].kind = kind /\ resp[p].status = s

\* C5: a webhook request whose signature header is missing or is not the
\* HMAC of the raw body is turned away in the handler's first segment: it is
\* answered 400 (the server having its webhook secret), never 200, and
\* balances, ledger, orders and event log are as before.
C5_BadSignatureRejected ==
    [][\A p \in Procs :
          (Leaves(p, "wh_start") /\ loc[p].sig # Hmac(loc[p].body)) =>
              /\ pc'[p] = "done"
              /\ env.webhookSecret => resp'[p].status = 400
              /\ resp'[p].status \in {400, 500}
              /\ UNCHANGED stores]_vars

\* C5 happens: a webhook request has been answered 400
C5_Witness == \E p \in Procs : AnsweredWith(p, "webhook", 400)

\* C6: a pay request whose principal's stored balance is lower than the cart
\* total is answered 400 "Insufficient credits." at the balance check, and
\* balances, ledger and orders are as before.
C6_InsufficientFundsRejected ==
    [][\A p \in Procs :
          (Leaves(p, "pay_balance") /\ wallets[loc[p].userId] < loc[p].total) =>
              /\ pc'[p] = "done"
              /\ resp'[p] = [status |-> 400, error |-> "Insufficient credits."]
              /\ UNCHANGED stores]_vars

\* C6 happens: a pay request has been answered "Insufficient credits."
C6_Witness ==
    \E p \in Procs : pc[p] = "done" /\ resp[p].error = "Insufficient credits."

\* the records of order id i in an orders array
OrderRecords(os, i) == {os[k] : k \in {j \in 1..Len(os) : os[j].orderId = i}}

Paid(os, i) == \E o \in OrderRecords(os, i) : o.status = "paid"

\* request p is a webhook about to write "paid" for an order that the same
\* event (charge and type) has already marked paid
PaidAgain(p) ==
    /\ pc[p] = "ups_write"
    /\ loc[p].kind = "webhook"
    /\ \E o \in OrderRecords(orders, loc[p].orderId) :
          /\ o.status = "paid"
          /\ "coinbase" \in DOMAIN o
          /\ o.coinbase = loc[p].order.coinbase

\* C7: processing the same confirmation for an order that is already paid
\* changes neither the order record nor any balance.
C7_PaidAgainIsNoOp ==
    [][\A p \in Procs :
          (PaidAgain(p) /\ pc'[p] = "done") =>
              /\ OrderRecords(orders', loc[p].orderId)
                    = OrderRecords(orders, loc[p].orderId)
              /\ wallets' = wallets]_vars

\* an admin delete of order id i completes in this step
AdminDeletes(i) ==
    \E p \in Procs : Leaves(p, "del_write") /\ loc[p].kind = "delete" /\ loc[p].orderId = i

\* C8: an order that is paid stays paid, unless an admin deletes it.
C8_PaidStaysPaid ==
    [][\A i \in 1..nextId :
          Paid(orders, i) => (Paid(orders', i) \/ AdminDeletes(i))]_vars

\* C9: once an admin delete of an order id has completed, the order store
\* holds no paid record of that id.
C9_DeletedNeverPaid ==
    \A p \in Procs :
        AnsweredWith(p, "delete", 200) => ~Paid(orders, loc[p].orderId)

\* every stored order that has an item list has items in it
NoEmptyOrder ==
    \A k \in 1..Len(orders) :
        "items" \in DOMAIN orders[k] => orders[k].items # <<>>

\* p's handler turns its request away in this step with { status, error },
\* leaving stores, gateway and id counter as they were
TurnedAway(p, status, error) ==
    /\ pc'[p] = "done"
    /\ resp'[p] = [status |-> status, error |-> error]
    /\ UNCHANGED <<stores, charges, nextId>>

Acts(p) == pc'[p] # pc[p]

\* the event types that confirm a payment
Confirming == {"charge:confirmed", "charge:resolved"}

\* C11: no step of a create-charge request (cart checkout or top-up), whether
\* its gateway call succeeds or fails, changes a balance or the ledger or
\* leaves its own order paid; a top-up line is appended, and a paid coinbase
\* record is written, only by a webhook request that carries a confirming
\* event.
C11_ChargeCreationHasNoLedgerEffect ==
    [][\A p \in Procs :
          Acts(p) =>
              /\ loc'[p].kind \in {"checkout", "topup"} =>
                    /\ UNCHANGED <<wallets, ledger>>
                    /\ ~Paid(orders', loc'[p].orderId)
              /\ (Len(ledger') > Len(ledger) /\ ledger'[Len(ledger')].reason = "topup") =>
                    /\ loc[p].kind = "webhook"
                    /\ loc[p].body.type \in Confirming
              /\ (/\ pc[p] = "ups_write"
                  /\ orders' # orders
                  /\ loc[p].order.status = "paid"
                  /\ loc[p].order.paymentMethod = "coinbase") =>
                    /\ loc[p].kind = "webhook"
                    /\ loc[p].body.type \in Confirming]_vars

\* C11 happens: a checkout whose gateway call failed and a top-up whose
\* gateway call succeeded have been answered, and balances and ledger are
\* those of the initial state
C11_Witness ==
    \E p, q \in Procs :
        /\ AnsweredWith(p, "checkout", 502)
        /\ AnsweredWith(q, "topup", 200)
        /\ wallets["u1"] = InitBalance /\ wallets["u2"] = 0
        /\ Len(ledger) = 1

\* pay request p answers 200 in this step
PayAnswers(p) ==
    /\ pc[p] = "ups_write" /\ loc[p].kind = "pay"
    /\ pc'[p] = "done" /\ resp'[p].status = 200

\* C12: the debit of a pay request lowers the principal's stored balance by
\* exactly the cart total, to the balance the request returns (newBal); and
\* when the request answers 200 the order file holds exactly one record of
\* its order id, paid by credits with that total and that principal.
C12_PayDebitsAndRecords ==
    [][\A p \in Procs :
          LET l == loc[p]
              recs == {k \in 1..Len(orders') : orders'[k].orderId = l.orderId}
          IN  /\ (Leaves(p, "add_write") /\ l.kind = "pay") =>
                    /\ wallets'[l.userId] = wallets[l.userId] - l.total
                    /\ wallets'[l.userId] = l.nextBal
              /\ PayAnswers(p) =>
                    /\ Cardinality(recs) = 1
                    /\ \A k \in recs :
                          /\ orders'[k].status = "paid"
                          /\ orders'[k].paymentMethod = "credits"
                          /\ orders'[k].totalUsd = l.total
                          /\ orders'[k].user.id = l.userId]_vars

\* the fields of an order record that checkout writes and payment leaves alone
CheckoutFields == {"createdAt", "totalUsd", "currency", "items", "user"}

\* an admin delete of order id i has been requested
DeleteRequested(i) ==
    \E q \in Procs : loc[q].kind = "delete" /\ loc[q].orderId = i

\* C13: once a verified confirmation of a checked-out order has been
\* processed (and no admin asked to delete the order), the order file holds
\* its record with status paid and with the total, items, currency, createdAt
\* and principal that checkout wrote.
C13_PaidKeepsCheckoutFields ==
    \A p \in Procs :
        (/\ AnsweredWith(p, "webhook", 200)
         /\ loc[p].orderId # 0
         /\ ~DeleteRequested(loc[p].orderId)) =>
            \E k \in 1..Len(orders) :
                /\ orders[k].orderId = loc[p].orderId
                /\ orders[k].status = "paid"
                /\ CheckoutFields \subseteq DOMAIN orders[k]
                /\ orders[k].totalUsd = calcCartTotalUsd(orders[k].items)
                /\ orders[k].orderId = InitOrder.orderId =>
                      \A f \in CheckoutFields : orders[k][f] = InitOrder[f]

\* C14: a pay request that ends after its debit either leaves its order in
\* the order file or is answered with the reconciliation-required outcome.
C14_LostOrderIsFlagged ==
    [][\A p \in Procs :
          (pc[p] = "ups_write" /\ loc[p].kind = "pay" /\ pc'[p] = "done") =>
              \/ \E k \in 1..Len(orders') : orders'[k].orderId = loc[p].orderId
              \/ resp'[p].error = "ReconciliationRequired"]_vars

\* the gateway holds a charge for order id i whose hosted page was handed out
HostedCharge(i) ==
    \E c \in DOMAIN charges :
        charges[c].hosted /\ Field(charges[c].metadata, "orderId", 0) = i

C16_OtherEventsIgnored ==
    [][\A p \in Procs :
          (/\ Leaves(p, "wh_start")
           /\ env.webhookSecret
           /\ loc[p].sig = Hmac(loc[p].body)
           /\ Parses(loc[p].body)
           /\ loc[p].body.type \notin Confirming) =>
              /\ pc'[p] = "done"
              /\ resp'[p] = [status |-> 200, error |-> ""]
              /\ UNCHANGED stores]_vars

\* C16 happens: a webhook request has been answered 200 and the event log
\* has not grown
C16_Witness ==
    \E p \in Procs : AnsweredWith(p, "webhook", 200) /\ Len(events) = 1

\* C17: pricing the same items in another order gives the same total.
C17_TotalIgnoresItemOrder ==
    [][\A p \in Procs :
          Leaves(p, "priced") => loc'[p].total = loc[p].total]_vars

\* the number of label items, and the sum of the stated prices (in mills) of
\* the account items, of a cart
RECURSIVE Labels(_)
Labels(items) ==
    IF items = <<>> THEN 0
    ELSE (IF Head(items).kind = "account" THEN 0 ELSE 1) + Labels(Tail(items))

RECURSIVE StatedPrices(_)
StatedPrices(items) ==
    IF items = <<>> THEN 0
    ELSE (IF Head(items).kind = "account" THEN Head(items).priceUsd ELSE 0)
         + StatedPrices(Tail(items))

\* C18: the total of a cart is the number of its labels times the label
\* price plus the sum of its account items' stated prices, added exactly and
\* rounded to cents once, at the end.
C18_TotalIsExactSum ==
    \A p \in Procs :
        pc[p] \in {"priced", "repriced"} =>
            loc[p].total * MillsPerCent
                = ToFixed2(Labels(loc[p].items) * LABEL_PRICE_USD
                           + StatedPrices(loc[p].items))

\* the last ledger line of principal u
LastLine(u) == CHOOSE i \in LinesOf(u) : \A j \in LinesOf(u) : j <= i

\* C19: in every state the stored balance of a principal is the balance of
\* the principal's last ledger line (zero without one): no balance is stored
\* without its line, no line without its balance.
C19_BalanceAndEntryTogether ==
    \A u \in Users :
        IF LinesOf(u) = {} THEN wallets[u] = 0
        ELSE wallets[u] = ledger[LastLine(u)].balance

\* C20: a charge that carries an order id is created only by the checkout
\* request of that order at its gateway call, and a checkout request reaches
\* its gateway call only by the step that writes its pending order, so the
\* record was stored before the charge existed.
C20_OrderWrittenBeforeCharge ==
    [][\A p \in Procs :
          Acts(p) =>
              /\ (/\ Len(charges') > Len(charges)
                  /\ "orderId" \in DOMAIN charges'[Len(charges')].metadata) =>
                    /\ pc[p] = "cc_fetch"
                    /\ charges'[Len(charges')].metadata.orderId = loc[p].orderId
              /\ pc'[p] = "cc_fetch" =>
                    /\ pc[p] = "ups_write"
                    /\ \E k \in 1..Len(orders') :
                          /\ orders'[k].orderId = loc[p].orderId
                          /\ orders'[k].status = "pending"]_vars

\* C20 happens: a checkout has been answered 200, the gateway holds the
\* charge with its order id and the order file holds the order
C20_Witness ==
    \E p \in Procs :
        /\ AnsweredWith(p, "checkout", 200)
        /\ Field(charges[Len(charges)].metadata, "orderId", 0) = loc[p].orderId
        /\ \E k \in 1..Len(orders) : orders[k].orderId = loc[p].orderId

\* the event log holds event e
Logged(log, e) == \E i \in 1..Len(log) : log[i] = e

\* C21: when a webhook request is answered 200 (its signature was valid), the
\* event it carried is in the event log, whatever the event's type.
C21_VerifiedEventsLogged ==
    [][\A p \in Procs :
          (/\ Acts(p)
           /\ loc[p].kind = "webhook"
           /\ pc'[p] = "done"
           /\ resp'[p].status = 200) => Logged(events', loc[p].body)]_vars

\* the event log holds an event of charge c with type t
LoggedFor(c, t) ==
    \E i \in 1..Len(events) : events[i].data.id = c /\ events[i].type = t

\* C22: a webhook request that has got as far as crediting or marking paid
\* has its event in the event log; every top-up line of the ledger and every
\* record marked paid by the gateway has the line of its event in the log.
C22_LoggedBeforeApplied ==
    /\ \A p \in Procs :
          (/\ loc[p].kind = "webhook"
           /\ pc[p] \in {"add_read", "add_write", "add_append", "ups_read", "ups_write"})
              => Logged(events, loc[p].body)
    /\ \A i \in 1..Len(ledger) :
          ledger[i].reason = "topup"
              => LoggedFor(ledger[i].meta.chargeId, ledger[i].meta.type)
    /\ \A k \in 1..Len(orders) :
          "coinbase" \in DOMAIN orders[k]
              => LoggedFor(orders[k].coinbase.chargeId, orders[k].coinbase.eventType)

\* C22 happens: a confirmation delivered in this behaviour has been logged
\* and applied, as a credit or as a paid order
C22_Witness ==
    /\ \E p \in Procs : AnsweredWith(p, "webhook", 200)
    /\ Len(events) = 2
    /\ Len(ledger) = 2 \/ Paid(orders, InitOrder.orderId)

\* C24: whenever no addCredits call is in progress, every principal's stored
\* balance is the sum of the deltas of the principal's ledger lines.
C24_LedgerReconstructsBalance ==
    ~AdjustInProgress =>
        \A u \in Users : wallets[u] = SumDelta(ledger, LinesOf(u))

\* the purchase line of the ledger for order id i
PurchaseLines(i) ==
    {k \in 1..Len(ledger) :
        ledger[k].reason = "purchase" /\ ledger[k].meta.orderId = i}

\* C28: two pay requests of one principal that were both answered 200 have
\* together spent no more than the principal held.
C28_ConcurrentPaysWithinBalance ==
    \A p, q \in Procs :
        (/\ p # q
         /\ AnsweredWith(p, "pay", 200)
         /\ AnsweredWith(q, "pay", 200)) =>
            \A i \in PurchaseLines(loc[p].orderId), j \in PurchaseLines(loc[q].orderId) :
                ledger[i].userId = ledger[j].userId =>
                    /\ ledger[i].meta.total + ledger[j].meta.total <= InitBalance
                    /\ wallets[ledger[i].userId] >= 0

\* C29: the wallet write of an adjustment changes the balance of its own
\* principal only.
C29_AdjustLeavesOthersAlone ==
    [][\A p \in Procs :
          Leaves(p, "add_write") =>
              \A u \in Users \ {loc[p].userId} : wallets'[u] = wallets[u]]_vars

\* C25: a webhook request with a valid signature that the handler answers in
\* its first segment (no store operation has been tried) is answered 200.
C25_RejectionsAcknowledged ==
    [][\A p \in Procs :
          (/\ Leaves(p, "wh_start")
           /\ env.webhookSecret
           /\ loc[p].sig = Hmac(loc[p].body)
           /\ pc'[p] = "done") => resp'[p].status = 200]_vars

\* C27: the adjustment a pay request issues for its cart is a debit: the
\* total it takes from the balance is greater than zero.
C27_PayDebitsPositiveTotal ==
    [][\A p \in Procs :
          (Leaves(p, "pay_balance") /\ pc'[p] = "add_read") =>
              /\ loc[p].total > 0
              /\ loc'[p].delta < 0]_vars

\* a webhook request whose verified event is held in its slot
Dispatching(p) ==
    /\ loc[p].kind = "webhook"
    /\ pc[p] \notin {"idle", "done"}
    /\ Parses(loc[p].body)
PurposeOf(p) == Field(loc[p].body.data.metadata, "purpose", "")

\* C23: in every step of a webhook request, an event with purpose topup leaves
\* the orders as they are, and the adjustment it issues is a credit of the
\* metadata amount to metadata.userId; an event with another purpose leaves
\* the wallets and the ledger as they are, and the record it upserts is a paid
\* record of metadata.orderId.
C23_DispatchByPurpose ==
    [][\A p \in Procs :
          (Acts(p) /\ Dispatching(p)) =>
              LET meta == loc[p].body.data.metadata
              IN  /\ PurposeOf(p) = "topup" =>
                        /\ orders' = orders
                        /\ pc'[p] \notin {"ups_read", "ups_write"}
                        /\ pc'[p] = "add_read" =>
                              /\ loc'[p].userId = meta.userId
                              /\ loc'[p].delta = ToFixed2(meta.amountUsd)
                              /\ loc'[p].reason = "topup"
                  /\ PurposeOf(p) # "topup" =>
                        /\ wallets' = wallets
                        /\ ledger' = ledger
                        /\ pc'[p] \notin {"add_read", "add_write", "add_append"}
                        /\ pc'[p] = "ups_read" =>
                              /\ loc'[p].order.orderId = meta.orderId
                              /\ loc'[p].order.status = "paid"]_vars

\* a top-up event that names an order has been credited and answered, and an
\* event of another purpose that names a user has marked its order paid
C23_Witness ==
    /\ \E i \in 1..Len(ledger) :
          ledger[i].reason = "topup" /\ ledger[i].meta.chargeId = 4
    /\ \E p \in Procs : AnsweredWith(p, "webhook", 200)
    /\ \E k \in 1..Len(orders) :
          "coinbase" \in DOMAIN orders[k] /\ orders[k].coinbase.chargeId = 5

\* C30: a label's status changes only from pending, to done or to cancelled,
\* and then stays; a done label carries no decline reason and a cancelled
\* label no files.
C30_LabelStatusFinal ==
    /\ [][\A id \in DOMAIN labels :
             labels'[id].status # labels[id].status =>
                 /\ labels[id].status = "pending"
                 /\ labels'[id].status \in {"done", "cancelled"}]_vars
    /\ [](\A id \in DOMAIN labels :
             /\ labels[id].status = "done" => labels[id].declineReason = Null
             /\ labels[id].status = "cancelled" => labels[id].files = <<>>)

\* the effect of the confirmation of charge c is in the files: for a top-up
\* the ledger line of the charge and the amount in the balance, for a cart
\* charge the paid record of its order
Applied(w, ldg, os, c) ==
    LET meta == charges[c].metadata
    IN  IF Field(meta, "purpose", "") = "topup"
        THEN /\ \E i \in 1..Len(ldg) :
                   /\ ldg[i].reason = "topup"
                   /\ ldg[i].meta.chargeId = c
                   /\ ldg[i].userId = meta.userId
                   /\ ldg[i].delta = meta.amountUsd
             /\ w[meta.userId] >= meta.amountUsd
        ELSE \E k \in 1..Len(os) :
                /\ os[k].orderId = meta.orderId
                /\ os[k].status = "paid"
                /\ "coinbase" \in DOMAIN os[k]
                /\ os[k].coinbase.chargeId = c

\* C26: the step that answers 200 to a verified confirmation leaves the
\* event's effect in the files; and under redelivery until 200, with the
\* server crashing at most MaxCrashes times at any await, every delivery is
\* eventually acknowledged with its effect applied.
C26_AppliedThenAcknowledged ==
    /\ [][\A p \in Procs :
             (/\ Acts(p) /\ Dispatching(p)
              /\ loc[p].body.type \in Confirming
              /\ pc'[p] = "done" /\ resp'[p].status = 200) =>
                 Applied(wallets', ledger', orders', loc[p].body.data.id)]_vars
    /\ \A p \in Procs :
          <>[](Acknowledged(p) /\ Applied(wallets, ledger, orders, ChargeFor(p)))

\* both deliveries are acknowledged with their effects applied, after the
\* server crashed with the top-up's event already logged and not yet credited
\* (the event is in the log twice, the ledger line is there once)
C26_Witness ==
    /\ crashes > 0
    /\ \A p \in Procs :
          Acknowledged(p) /\ Applied(wallets, ledger, orders, ChargeFor(p))
    /\ Cardinality({i \in 1..Len(events) : events[i].data.id = 2}) > 1
    /\ Cardinality({i \in 1..Len(ledger) : ledger[i].meta.chargeId = 2}) = 1
    /\ wallets["u2"] = TopupCents * MillsPerCent

====
